---- MODULE Spec2Model ----
(***************************************************************************)
(* Arithmetic of the Mersenne-31 prime field (src/fields/basefield.rs) and *)
(* of its degree-4 tower extension (src/fields/extensionfield.rs).         *)
(*                                                                         *)
(* TLC's integers are 32-bit signed, and PRIME = 2^31 - 1 is the largest   *)
(* of them.  A stored field value (a u32 that the operations keep in       *)
(* 0..PRIME) is an integer; every wider intermediate (a u32 sum, the u64   *)
(* product) is a pair <<hi, lo>> standing for hi * 2^31 + lo with          *)
(* lo \in 0..PRIME, so that no width of the source is lost.                *)
(***************************************************************************)
EXTENDS Integers, Sequences, FiniteSets, TLC

VARIABLES
    x, y,       \* two BaseField values the caller holds
    q, p,       \* two ExtensionField values the caller holds
    last,       \* the last operation called: operands, intermediate, outcome
    prev,       \* the operation called before it
    failed,     \* an assertion failed: the program has aborted
    nops,       \* operations called so far
    pc, kind, arg, n0, res, base, exp, iters, inv   \* a call of pow, see below

calc == <<x, y, q, p, last, prev, failed, nops>>
call == <<pc, kind, arg, n0, res, base, exp, iters, inv>>
vars == <<calc, call>>

(***************************************************************************)
(* Wide unsigned integers.                                                 *)
(***************************************************************************)
\* pub const PRIME: u32 = (1 << 31) - 1
PRIME == 2147483647

\* radix of the digits the u64 product is computed in
Radix == 2^15

\* an integer of 0..PRIME as a wide value
Wide(n) == <<0, n>>

\* w + n and w - n for a wide w and n \in 0..PRIME, exact (hi may leave 0..1)
WideAdd(w, n) ==
    IF w[2] <= PRIME - n THEN <<w[1], w[2] + n>>
    ELSE <<w[1] + 1, (w[2] - (PRIME - n)) - 1>>

WideSub(w, n) ==
    IF w[2] >= n THEN <<w[1], w[2] - n>>
    ELSE <<w[1] - 1, (w[2] + (PRIME - n)) + 1>>

\* a wide value is a u32 iff it lies in 0 .. 2^32 - 1
InU32(w) == w[1] \in {0, 1}

\* what a u32 register keeps of an exact result (two's complement wrap-around)
WrapU32(w) == <<w[1] % 2, w[2]>>

\* w % PRIME for a wide w with 0 <= hi <= PRIME: since 2^31 = 1 (mod PRIME),
\* w = hi + lo (mod PRIME); the folded value lies in 0..PRIME and PRIME itself
\* is the residue 0.
RemPrime(w) ==
    LET s == WideAdd(Wide(w[2]), w[1])
        f == s[1] + s[2]
    IN  IF f = PRIME THEN 0 ELSE f

\* the exact product a * b of a, b \in 0..PRIME as a wide value (self.0 as u64 *
\* other.0 as u64), by schoolbook multiplication on radix-2^15 digits
Product(a, b) ==
    LET a0 == a % Radix
        a1 == (a \div Radix) % Radix
        a2 == a \div (Radix * Radix)
        b0 == b % Radix
        b1 == (b \div Radix) % Radix
        b2 == b \div (Radix * Radix)
        k0 == a0 * b0
        k1 == (a0 * b1 + a1 * b0) + (k0 \div Radix)
        k2 == (a0 * b2 + a1 * b1 + a2 * b0) + (k1 \div Radix)
        k3 == (a1 * b2 + a2 * b1) + (k2 \div Radix)
        k4 == (a2 * b2) + (k3 \div Radix)
        d0 == k0 % Radix
        d1 == k1 % Radix
        d2 == k2 % Radix
        d3 == k3 % Radix
    IN  << (d2 \div 2) + d3 * (Radix \div 2) + k4 * ((Radix * Radix) \div 2),
           d0 + d1 * Radix + (d2 % 2) * (Radix * Radix) >>

(***************************************************************************)
(* Calls.  Rust evaluates an argument once, before the call; Eval1 and     *)
(* Eval2 apply F to the values of their arguments.  An operation that can  *)
(* hit an assertion returns a record [ok, v, at]: ok = FALSE is the panic, *)
(* at names the function whose assertion failed, and v is then             *)
(* meaningless.  Then(r, F) is F on the value of r, or r's panic.          *)
(***************************************************************************)
Eval1(v, F(_)) == CHOOSE r \in {F(u) : u \in {v}} : TRUE
Eval2(v, w, F(_, _)) == CHOOSE r \in {F(u[1], u[2]) : u \in {<<v, w>>}} : TRUE

Ok(v) == [ok |-> TRUE, v |-> v, at |-> "none"]
Panic(at) == [ok |-> FALSE, v |-> 0, at |-> at]
ThenValue(F(_), r) == IF r.ok THEN Ok(F(r.v)) ELSE r
Then(r, F(_)) == Eval1(r, LAMBDA i : ThenValue(F, i))

(***************************************************************************)
(* BaseField: the stored u32 of a value, an integer of 0..PRIME (an        *)
(* operand outside it stops the check with an error instead of a result).  *)
(***************************************************************************)
\* BaseField::new(value: u32), value a wide u32
BaseField_new(value) == RemPrime(value)

\* the exact u32 intermediates self.0 + other.0 and self.0 + PRIME - other.0
add_raw(a, b) == WideAdd(Wide(a), b)
sub_raw_no_prime(a, b) == WideSub(Wide(a), b)
sub_raw(a, b) == WideSub(WideAdd(Wide(a), PRIME), b)

add_u32(a, b) == CASE a \in 0..PRIME /\ b \in 0..PRIME -> RemPrime(WrapU32(add_raw(a, b)))
sub_u32(a, b) == CASE a \in 0..PRIME /\ b \in 0..PRIME -> RemPrime(WrapU32(sub_raw(a, b)))
mul_u64(a, b) == CASE a \in 0..PRIME /\ b \in 0..PRIME -> RemPrime(Product(a, b))
neg_u32(a) == CASE a \in 0..PRIME -> PRIME - a

BaseField_add(a, b) == Eval2(a, b, add_u32)
BaseField_sub(a, b) == Eval2(a, b, sub_u32)
BaseField_mul(a, b) == Eval2(a, b, mul_u64)
BaseField_neg(a) == Eval1(a, neg_u32)
BaseField_square(a) == Eval1(a, LAMBDA v : mul_u64(v, v))

RECURSIVE sqn_loop(_, _)
sqn_loop(n, v) == IF n = 0 THEN v ELSE Eval1(mul_u64(v, v), LAMBDA w : sqn_loop(n - 1, w))
BaseField_sqn(n, v) == Eval1(v, LAMBDA w : sqn_loop(n, w))

\* The addition chain of BaseField::inverse, read in the field or on
\* exponents: a block of n squarings raises to the power 2^n, that is
\* multiplies the exponent by 2^n, and a multiplication adds exponents.  Read
\* on the exponent 1 of self, the chain gives the power it raises self to.
ChainSqn(reading, n, v) ==
    IF reading = "field" THEN BaseField_sqn(n, v) ELSE v * 2^n

ChainMul(reading, a, b) ==
    IF reading = "field" THEN BaseField_mul(a, b) ELSE a + b

InverseChainShort(reading, self) ==
    LET t0 == ChainMul(reading, ChainSqn(reading, 2, self), self)
        t1 == ChainMul(reading, ChainSqn(reading, 1, t0), t0)
        t2 == ChainMul(reading, ChainSqn(reading, 3, t1), t0)
        t3 == ChainMul(reading, ChainSqn(reading, 1, t2), t0)
        t4 == ChainMul(reading, ChainSqn(reading, 8, t3), t3)
        t5 == ChainMul(reading, ChainSqn(reading, 8, t4), t3)
    IN  ChainMul(reading, ChainSqn(reading, 7, t5), t1)

InverseChain(reading, self) ==
    LET t0 == ChainMul(reading, ChainSqn(reading, 2, self), self)
        t1 == ChainMul(reading, ChainSqn(reading, 1, t0), t0)
        t2 == ChainMul(reading, ChainSqn(reading, 3, t1), t0)
        t3 == ChainMul(reading, ChainSqn(reading, 1, t2), t0)
        t4 == ChainMul(reading, ChainSqn(reading, 8, t3), t3)
        t5 == ChainMul(reading, ChainSqn(reading, 8, t4), t3)
    IN  ChainMul(reading, ChainSqn(reading, 7, t5), t2)

inverse_chain(self) ==
    IF self = BaseField_new(Wide(0)) THEN Panic("BaseField::inverse")
    ELSE Ok(InverseChain("field", self))

BaseField_inverse(self) == Eval1(self, inverse_chain)

BaseField_div(a, b) ==
    Eval1(a, LAMBDA s : Then(BaseField_inverse(b), LAMBDA i : mul_u64(s, i)))

(***************************************************************************)
(* ExtensionField: (a, b, c, d) = (a + bi) + (c + di)j, i^2 = -1,          *)
(* j^2 = 2 + i.  A value is a 4-tuple of stored BaseField values, a        *)
(* complex pair a 2-tuple.                                                 *)
(***************************************************************************)
\* ExtensionField::new(a, b, c, d), each a wide u32
ExtensionField_new(a, b, c, d) ==
    <<BaseField_new(a), BaseField_new(b), BaseField_new(c), BaseField_new(d)>>

mul_complex_base(a, b, c) == <<BaseField_mul(a, c), BaseField_mul(b, c)>>

mul_pairs(a, b) ==
    LET c0 == BaseField_sub(BaseField_mul(a[1], b[1]), BaseField_mul(a[2], b[2]))
        c1 == BaseField_add(BaseField_mul(a[1], b[2]), BaseField_mul(a[2], b[1]))
    IN  <<c0, c1>>

mul_complex(a, b) == Eval2(a, b, mul_pairs)

square_complex(a) == Eval1(a, LAMBDA v : mul_pairs(v, v))

\* inverse_pair without its assertion
inverse_pair_unchecked(a, b) ==
    Then(BaseField_inverse(BaseField_add(BaseField_square(a), BaseField_square(b))),
         LAMBDA i : mul_complex_base(a, BaseField_neg(b), i))

inverse_pair(a, b) ==
    IF ~(a # 0 \/ b # 0) THEN Panic("inverse_complex")
    ELSE Then(BaseField_inverse(BaseField_add(BaseField_square(a), BaseField_square(b))),
              LAMBDA i : mul_complex_base(a, BaseField_neg(b), i))

inverse_complex(a, b) == Eval2(a, b, inverse_pair)

\* denom_of with the norm taken as A^2 - 2 B^2
denom_of_real(b2, a2) ==
    << BaseField_sub(a2[1], BaseField_add(b2[1], b2[1])),
       BaseField_sub(a2[2], BaseField_add(b2[2], b2[2])) >>

\* denom of ExtensionField::inverse: the tower norm A^2 - (2 + i) B^2
denom_of(b2, a2) ==
    LET ib2 == <<BaseField_neg(b2[2]), b2[1]>>
    IN  << BaseField_sub(a2[1], BaseField_add(BaseField_add(b2[1], b2[1]), ib2[1])),
           BaseField_sub(a2[2], BaseField_add(BaseField_add(b2[2], b2[2]), ib2[2])) >>

ExtensionField_denom(self) ==
    Eval2(square_complex(<<self[3], self[4]>>), square_complex(<<self[1], self[2]>>),
          denom_of)

inverse_tower(self) ==
    IF self = ExtensionField_new(Wide(0), Wide(0), Wide(0), Wide(0))
    THEN Panic("ExtensionField::inverse")
    ELSE Eval1(ExtensionField_denom(self), LAMBDA denom :
           Then(inverse_complex(denom[1], denom[2]), LAMBDA denom_inverse :
             Eval2(mul_complex(<<self[1], self[2]>>, denom_inverse),
                   mul_complex(<<BaseField_neg(self[3]), BaseField_neg(self[4])>>,
                               denom_inverse),
                   LAMBDA ab, cd : <<ab[1], ab[2], cd[1], cd[2]>>)))

ExtensionField_inverse(self) == Eval1(self, inverse_tower)

add_tower(self, other) ==
    << BaseField_add(self[1], other[1]), BaseField_add(self[2], other[2]),
       BaseField_add(self[3], other[3]), BaseField_add(self[4], other[4]) >>

sub_tower(self, other) ==
    << BaseField_sub(self[1], other[1]), BaseField_sub(self[2], other[2]),
       BaseField_sub(self[3], other[3]), BaseField_sub(self[4], other[4]) >>

\* mul_tower with j^2 taken as 1 + 2i
mul_tower_swapped(self, other) ==
    LET ab0 == mul_complex(<<self[1], self[2]>>, <<other[1], other[2]>>)
        ab1 == mul_complex(<<1, 2>>,
                           mul_complex(<<self[3], self[4]>>, <<other[3], other[4]>>))
        cd0 == mul_complex(<<self[1], self[2]>>, <<other[3], other[4]>>)
        cd1 == mul_complex(<<self[3], self[4]>>, <<other[1], other[2]>>)
    IN  Eval2(<<ab0, ab1>>, <<cd0, cd1>>, LAMBDA ab, cd :
          << BaseField_add(ab[1][1], ab[2][1]), BaseField_add(ab[1][2], ab[2][2]),
             BaseField_add(cd[1][1], cd[2][1]), BaseField_add(cd[1][2], cd[2][2]) >>)

mul_tower(self, other) ==
    LET ab0 == mul_complex(<<self[1], self[2]>>, <<other[1], other[2]>>)
        ab1 == mul_complex(<<2, 1>>,
                           mul_complex(<<self[3], self[4]>>, <<other[3], other[4]>>))
        cd0 == mul_complex(<<self[1], self[2]>>, <<other[3], other[4]>>)
        cd1 == mul_complex(<<self[3], self[4]>>, <<other[1], other[2]>>)
    IN  Eval2(<<ab0, ab1>>, <<cd0, cd1>>, LAMBDA ab, cd :
          << BaseField_add(ab[1][1], ab[2][1]), BaseField_add(ab[1][2], ab[2][2]),
             BaseField_add(cd[1][1], cd[2][1]), BaseField_add(cd[1][2], cd[2][2]) >>)

neg_tower(self) ==
    << BaseField_neg(self[1]), BaseField_neg(self[2]),
       BaseField_neg(self[3]), BaseField_neg(self[4]) >>

ExtensionField_add(self, other) == Eval2(self, other, add_tower)
ExtensionField_sub(self, other) == Eval2(self, other, sub_tower)
ExtensionField_mul(self, other) == Eval2(self, other, mul_tower)
ExtensionField_square(self) == Eval1(self, LAMBDA v : mul_tower(v, v))
ExtensionField_neg(self) == Eval1(self, neg_tower)

ExtensionField_div(self, other) ==
    Eval1(self, LAMBDA s : Then(ExtensionField_inverse(other), LAMBDA i : mul_tower(s, i)))

\* the operations mixed with a BaseField scalar
add_scalar(self, other) == <<BaseField_add(self[1], other), self[2], self[3], self[4]>>
sub_scalar(self, other) == <<BaseField_sub(self[1], other), self[2], self[3], self[4]>>

mul_scalar(self, other) ==
    << BaseField_mul(self[1], other), BaseField_mul(self[2], other),
       BaseField_mul(self[3], other), BaseField_mul(self[4], other) >>

div_scalar(self, other) ==
    Eval2(<<BaseField_div(self[1], other), BaseField_div(self[2], other)>>,
          <<BaseField_div(self[3], other), BaseField_div(self[4], other)>>,
          LAMBDA ab, cd :
            IF ab[1].ok /\ ab[2].ok /\ cd[1].ok /\ cd[2].ok
            THEN Ok(<<ab[1].v, ab[2].v, cd[1].v, cd[2].v>>)
            ELSE CHOOSE d \in {ab[1], ab[2], cd[1], cd[2]} : ~d.ok)

ExtensionField_add_base(self, other) == Eval2(self, other, add_scalar)
ExtensionField_sub_base(self, other) == Eval2(self, other, sub_scalar)
ExtensionField_mul_base(self, other) == Eval2(self, other, mul_scalar)
ExtensionField_div_base(self, other) == Eval2(self, other, div_scalar)

(***************************************************************************)
(* The caller: any sequence of at most MaxOps operations on values built   *)
(* with the constructors.  The result of an operation replaces x (q); a    *)
(* failed assertion aborts the program.                                    *)
(***************************************************************************)
MaxOps == 2

\* the u32 arguments BaseField::new is called with
BaseInputs == {Wide(0), Wide(1), Wide(2), Wide(PRIME - 1), Wide(PRIME), <<1, PRIME>>}

Zero4 == <<0, 0, 0, 0>>

NoOp == [op |-> "none", a |-> 0, b |-> 0, raw |-> Wide(0), ok |-> TRUE,
         at |-> "none", r |-> 0]

Called(op, a, b, raw, out) ==
    [op |-> op, a |-> a, b |-> b, raw |-> raw, ok |-> out.ok, at |-> out.at,
     r |-> out.v]

NoCall ==
    /\ pc = "idle" /\ kind = "none" /\ arg = 0 /\ n0 = <<>> /\ res = 0
    /\ base = 0 /\ exp = <<>> /\ iters = 0 /\ inv = Ok(0)

\* the outcome `out` of operation `op` on x (and y), its u32 intermediate `raw`
BaseStep(op, a, b, raw, out) ==
    /\ ~failed /\ nops < MaxOps
    /\ nops' = nops + 1
    /\ prev' = last
    /\ last' = Called(op, a, b, raw, out)
    /\ failed' = ~out.ok
    /\ x' = IF out.ok THEN out.v ELSE x
    /\ UNCHANGED <<y, q, p, call>>

Init ==
    /\ x \in {BaseField_new(v) : v \in BaseInputs}
    /\ y \in {BaseField_new(v) : v \in BaseInputs}
    /\ q = Zero4 /\ p = Zero4
    /\ last = NoOp /\ prev = NoOp /\ failed = FALSE /\ nops = 0
    /\ NoCall

New == \E v \in BaseInputs : BaseStep("new", 0, 0, v, Ok(BaseField_new(v)))
Add == BaseStep("add", x, y, add_raw(x, y), Ok(BaseField_add(x, y)))
Sub == BaseStep("sub", x, y, sub_raw(x, y), Ok(BaseField_sub(x, y)))
Mul == BaseStep("mul", x, y, Wide(0), Ok(BaseField_mul(x, y)))
Neg == BaseStep("neg", x, 0, Wide(0), Ok(BaseField_neg(x)))
Square == BaseStep("square", x, 0, Wide(0), Ok(BaseField_square(x)))
Inverse == BaseStep("inverse", x, 0, Wide(0), BaseField_inverse(x))
Div == BaseStep("div", x, y, Wide(0), BaseField_div(x, y))

\* the caller passes its values in either order
Swap ==
    /\ ~failed
    /\ x' = y /\ y' = x
    /\ UNCHANGED <<q, p, last, prev, failed, nops, call>>

Next == New \/ Add \/ Sub \/ Mul \/ Neg \/ Square \/ Inverse \/ Div \/ Swap

Spec == Init /\ [][Next]_vars

(***************************************************************************)
(* The caller of ExtensionField: q and p are its values, x its BaseField   *)
(* scalar.                                                                 *)
(***************************************************************************)
\* the arguments ExtensionField::new is called with: those of tests::test_ops,
\* the zero and the one (given as the u32 PRIME + 1 = 2^31)
ExtInputs ==
    { <<Wide(0), Wide(0), Wide(0), Wide(0)>>,
      <<Wide(1), Wide(2), Wide(3), Wide(4)>>,
      <<Wide(4), Wide(5), Wide(6), Wide(7)>>,
      <<<<1, 0>>, Wide(0), Wide(PRIME), Wide(0)>> }

ScalarInputs == {Wide(0), Wide(8)}

\* ExtensionField([m, BaseField(0), BaseField(0), BaseField(0)])
Embed(m) == <<m, 0, 0, 0>>

ExtStep(op, a, b, out) ==
    /\ ~failed /\ nops < MaxOps
    /\ nops' = nops + 1
    /\ prev' = last
    /\ last' = Called(op, a, b, Wide(0), out)
    /\ failed' = ~out.ok
    /\ q' = IF out.ok THEN out.v ELSE q
    /\ UNCHANGED <<x, y, p, call>>

InitExt ==
    /\ q \in {ExtensionField_new(v[1], v[2], v[3], v[4]) : v \in ExtInputs}
    /\ p \in {ExtensionField_new(v[1], v[2], v[3], v[4]) : v \in ExtInputs}
    /\ x \in {BaseField_new(v) : v \in ScalarInputs}
    /\ y = 0
    /\ last = NoOp /\ prev = NoOp /\ failed = FALSE /\ nops = 0
    /\ NoCall

ExtAdd == ExtStep("add", q, p, Ok(ExtensionField_add(q, p)))
ExtSub == ExtStep("sub", q, p, Ok(ExtensionField_sub(q, p)))
ExtMul == ExtStep("mul", q, p, Ok(ExtensionField_mul(q, p)))
ExtNeg == ExtStep("neg", q, Zero4, Ok(ExtensionField_neg(q)))
ExtSquare == ExtStep("square", q, Zero4, Ok(ExtensionField_square(q)))
ExtInverse == ExtStep("inverse", q, Zero4, ExtensionField_inverse(q))
ExtDiv == ExtStep("div", q, p, ExtensionField_div(q, p))
ExtAddBase == ExtStep("add_base", q, x, Ok(ExtensionField_add_base(q, x)))
ExtSubBase == ExtStep("sub_base", q, x, Ok(ExtensionField_sub_base(q, x)))
ExtMulBase == ExtStep("mul_base", q, x, Ok(ExtensionField_mul_base(q, x)))
ExtDivBase == ExtStep("div_base", q, x, ExtensionField_div_base(q, x))

\* the scalar is itself the result of BaseField operations
ScalarNeg ==
    /\ ~failed /\ nops < MaxOps
    /\ nops' = nops + 1
    /\ prev' = last
    /\ last' = Called("scalar_neg", x, 0, Wide(0), Ok(BaseField_neg(x)))
    /\ x' = BaseField_neg(x)
    /\ UNCHANGED <<y, q, p, failed, call>>

ExtSwap ==
    /\ ~failed
    /\ q' = p /\ p' = q
    /\ UNCHANGED <<x, y, last, prev, failed, nops, call>>

NextExt ==
    \/ ExtAdd \/ ExtSub \/ ExtMul \/ ExtNeg \/ ExtSquare \/ ExtInverse \/ ExtDiv
    \/ ExtAddBase \/ ExtSubBase \/ ExtMulBase \/ ExtDivBase \/ ScalarNeg \/ ExtSwap

SpecExt == InitExt /\ [][NextExt]_vars

(***************************************************************************)
(* A call of pow(&self, exp: u128), one loop iteration per step.  The      *)
(* exponent is its 128 bits, least significant first; arg and n0 are the   *)
(* arguments of the call, iters counts the iterations.  A call on a        *)
(* BaseField is followed by arg.inverse(), kept in inv.                    *)
(***************************************************************************)
U128Bits == 128
MaxExp == 8

\* the u128 with value n, for an integer n of 0..PRIME
ExpOf(n) == [i \in 1..U128Bits |-> IF i <= 31 THEN (n \div 2^(i - 1)) % 2 ELSE 0]
ExpMax == [i \in 1..U128Bits |-> 1]
ExpTop == [i \in 1..U128Bits |-> IF i = U128Bits THEN 1 ELSE 0]

ExpInputs == {ExpOf(n) : n \in 0..MaxExp} \cup {ExpOf(PRIME - 2), ExpMax, ExpTop}

\* exp > 0, exp & 1 == 1, exp >> 1
exp_positive(e) == ~(\A i \in 1..U128Bits : e[i] = 0)
exp_odd(e) == e[1] = 1
exp_shr(e) == Append(Tail(e), 0)

\* the values pow is called on: built by new, or by new and one neg
PowInputs == BaseInputs \cup {Wide(3), Wide(2^16), Wide(123456789)}

BasePowArgs ==
    {BaseField_new(v) : v \in PowInputs}
        \cup {BaseField_neg(BaseField_new(v)) : v \in PowInputs}

ExtPowArgs ==
    {ExtensionField_new(v[1], v[2], v[3], v[4]) : v \in ExtInputs}
        \cup {ExtensionField_neg(ExtensionField_new(v[1], v[2], v[3], v[4])) : v \in ExtInputs}

InitPow ==
    /\ x = 0 /\ y = 0 /\ q = Zero4 /\ p = Zero4
    /\ last = NoOp /\ prev = NoOp /\ failed = FALSE /\ nops = 0
    /\ pc = "call"
    /\ \/ kind = "BaseField" /\ arg \in BasePowArgs
       \/ kind = "ExtensionField" /\ arg \in ExtPowArgs
    /\ n0 \in ExpInputs
    /\ res = 0 /\ base = 0 /\ exp = n0 /\ iters = 0 /\ inv = Ok(0)

\* pow starting from res = self
BaseField_pow_enter_from_self ==
    /\ pc = "call" /\ kind = "BaseField"
    /\ res' = arg
    /\ base' = arg
    /\ exp' = n0
    /\ pc' = "loop"
    /\ UNCHANGED <<calc, kind, arg, n0, iters, inv>>

BaseField_pow_enter ==
    /\ pc = "call" /\ kind = "BaseField"
    /\ res' = BaseField_new(Wide(1))
    /\ base' = arg
    /\ exp' = n0
    /\ pc' = "loop"
    /\ UNCHANGED <<calc, kind, arg, n0, iters, inv>>

BaseField_pow_iter ==
    /\ pc = "loop" /\ kind = "BaseField"
    /\ exp_positive(exp)
    /\ res' = IF exp_odd(exp) THEN BaseField_mul(res, base) ELSE res
    /\ base' = BaseField_square(base)
    /\ exp' = exp_shr(exp)
    /\ iters' = iters + 1
    /\ UNCHANGED <<calc, pc, kind, arg, n0, inv>>

ExtensionField_pow_enter ==
    /\ pc = "call" /\ kind = "ExtensionField"
    /\ res' = ExtensionField_new(Wide(1), Wide(0), Wide(0), Wide(0))
    /\ base' = arg
    /\ exp' = n0
    /\ pc' = "loop"
    /\ UNCHANGED <<calc, kind, arg, n0, iters, inv>>

ExtensionField_pow_iter ==
    /\ pc = "loop" /\ kind = "ExtensionField"
    /\ exp_positive(exp)
    /\ res' = IF exp_odd(exp) THEN ExtensionField_mul(res, base) ELSE res
    /\ base' = ExtensionField_square(base)
    /\ exp' = exp_shr(exp)
    /\ iters' = iters + 1
    /\ UNCHANGED <<calc, pc, kind, arg, n0, inv>>

pow_return ==
    /\ pc = "loop"
    /\ ~exp_positive(exp)
    /\ pc' = "done"
    /\ UNCHANGED <<calc, kind, arg, n0, res, base, exp, iters, inv>>

InverseCall ==
    /\ pc = "done" /\ kind = "BaseField"
    /\ inv' = BaseField_inverse(arg)
    /\ pc' = "checked"
    /\ UNCHANGED <<calc, kind, arg, n0, res, base, exp, iters>>

NextPow ==
    \/ BaseField_pow_enter \/ BaseField_pow_iter
    \/ ExtensionField_pow_enter \/ ExtensionField_pow_iter
    \/ pow_return \/ InverseCall

SpecPow == InitPow /\ [][NextPow]_vars

(***************************************************************************)
(* The references of the tests of basefield.rs, on integers of 0..PRIME.   *)
(***************************************************************************)
\* add_p: (a + b) % PRIME on u32
add_p(a, b) == RemPrime(WrapU32(WideAdd(Wide(a), b)))

sub_p(a, b) == IF a >= b THEN a - b ELSE (PRIME - b) + a

neg_p(a) == IF a = 0 THEN 0 ELSE PRIME - a

\* expected of test_pow_ops: BaseField::new(1), then n times expected *= bx
RECURSIVE expected_pow(_, _)
expected_pow(bx, n) ==
    IF n = 0 THEN BaseField_new(Wide(1))
    ELSE BaseField_mul(expected_pow(bx, n - 1), bx)

(***************************************************************************)
(* Properties of BaseField, under Spec.                                    *)
(***************************************************************************)
\* v is a canonical residue: an integer of [0, PRIME)
Canonical(v) == v \in 0..(PRIME - 1)

\* v = 0 (mod PRIME), for a stored value v of 0..PRIME
CongruentZero(v) == v \in {0, PRIME}

\* the residue of a stored value v of 0..PRIME
Residue(v) == IF v = PRIME THEN 0 ELSE v

\* (a + b) mod PRIME and (a - b) mod PRIME, from the residues of a and b
ModSum(a, b) ==
    IF Residue(a) < PRIME - Residue(b) THEN Residue(a) + Residue(b)
    ELSE Residue(a) - (PRIME - Residue(b))

ModDiff(a, b) ==
    IF Residue(a) >= Residue(b) THEN Residue(a) - Residue(b)
    ELSE Residue(a) + (PRIME - Residue(b))

\* C1: every BaseField value the caller holds, and every coordinate of every
\* ExtensionField value it holds, is stored as an integer of [0, PRIME).
C1_CanonicalResidue ==
    /\ Canonical(x) /\ Canonical(y)
    /\ \A i \in 1..4 : Canonical(q[i]) /\ Canonical(p[i])

\* C2: the negation of BaseField::new(a), a in [0, PRIME), is
\* BaseField::new(neg_p(a)): 0 for a = 0, PRIME - a otherwise, and never the
\* stored value PRIME.
C2_NegIsReference ==
    (last.op = "neg" /\ Canonical(last.a)) =>
        /\ last.r = BaseField_new(Wide(neg_p(last.a)))
        /\ last.r # PRIME

\* C3: inverse of a value congruent to 0, and div by one, abort; neither
\* returns a value.
C3_ZeroHasNoInverse ==
    /\ (last.op = "inverse" /\ CongruentZero(last.a)) => ~last.ok
    /\ (last.op = "div" /\ CongruentZero(last.b)) => ~last.ok

\* C10: the u32 intermediates a.0 + b.0 of add and a.0 + PRIME - b.0 of sub
\* lie in [0, 2^32), and the results are (a + b) mod PRIME and (a - b) mod
\* PRIME, which the tests build from add_p and sub_p.
C10_AddSubFitU32 ==
    /\ last.op = "add" =>
          /\ InU32(last.raw)
          /\ last.r = ModSum(last.a, last.b)
          /\ last.r = BaseField_new(Wide(add_p(last.a, last.b)))
    /\ last.op = "sub" =>
          /\ InU32(last.raw)
          /\ last.r = ModDiff(last.a, last.b)
          /\ last.r = BaseField_new(Wide(sub_p(last.a, last.b)))

\* the largest intermediate of sub, 2 * PRIME = 2^32 - 2, after the largest
\* intermediate of add, on operands that negation made
C10_Witness ==
    /\ last.op = "sub" /\ last.a = PRIME /\ last.b = 0
    /\ last.raw = <<1, PRIME - 1>> /\ last.r = 0

(***************************************************************************)
(* Properties of ExtensionField, under SpecExt.                            *)
(***************************************************************************)
One4 == <<1, 0, 0, 0>>

\* every coordinate of v is 0 (mod PRIME): v is the zero of the field
ZeroElement(v) == \A i \in 1..4 : CongruentZero(v[i])

Canonical4(v) == \A i \in 1..4 : Canonical(v[i])

\* (a + bi + cj + dij)(e + fi + gj + hij) multiplied out coefficient by
\* coefficient with i^2 = -1 and j^2 = 2 + i
TowerProduct(s, o) ==
    LET M(u, v) == BaseField_mul(u, v)
        A(u, v) == BaseField_add(u, v)
        S(u, v) == BaseField_sub(u, v)
        cg_dh == S(M(s[3], o[3]), M(s[4], o[4]))
        ch_dg == A(M(s[3], o[4]), M(s[4], o[3]))
    IN  << S(A(S(M(s[1], o[1]), M(s[2], o[2])), A(cg_dh, cg_dh)), ch_dg),
           A(A(A(M(s[1], o[2]), M(s[2], o[1])), A(ch_dg, ch_dg)), cg_dh),
           A(S(M(s[1], o[3]), M(s[2], o[4])), S(M(s[3], o[1]), M(s[4], o[2]))),
           A(A(M(s[1], o[4]), M(s[2], o[3])), A(M(s[3], o[2]), M(s[4], o[1]))) >>

\* C6: the product of two ExtensionField values is their product in the
\* tower with i^2 = -1 and j^2 = 2 + i, every coordinate reduced; and
\* (1,2,3,4) * (4,5,6,7) = (PRIME - 71, 93, PRIME - 16, 50).
C6_MulIsTowerProduct ==
    last.op = "mul" =>
        /\ last.r = TowerProduct(last.a, last.b)
        /\ Canonical4(last.r)
        /\ (last.a = <<1, 2, 3, 4>> /\ last.b = <<4, 5, 6, 7>>)
              => last.r = <<PRIME - 71, 93, PRIME - 16, 50>>

C6_Witness ==
    /\ last.op = "mul" /\ last.a = <<1, 2, 3, 4>> /\ last.b = <<4, 5, 6, 7>>
    /\ last.r = <<PRIME - 71, 93, PRIME - 16, 50>>

\* C7: the inverse of a value y that is not the zero of the field is
\* returned, y * y.inverse() is (1,0,0,0) and the norm `denom` of y is not
\* (0,0); (x * y) / y is x for canonical x; and
\* (PRIME - 71, 93, PRIME - 16, 50) / (4,5,6,7) = (1,2,3,4).
C7_InverseIsInverse ==
    /\ (last.op = "inverse" /\ ~ZeroElement(last.a)) =>
          /\ last.ok
          /\ ExtensionField_mul(last.a, last.r) = One4
          /\ ExtensionField_denom(last.a) # <<0, 0>>
    /\ (last.op = "div" /\ ~ZeroElement(last.b)) =>
          /\ last.ok
          /\ (prev.op = "mul" /\ prev.r = last.a /\ prev.b = last.b
                /\ Canonical4(prev.a)) => last.r = prev.a
          /\ (last.a = <<PRIME - 71, 93, PRIME - 16, 50>> /\ last.b = <<4, 5, 6, 7>>)
                => last.r = <<1, 2, 3, 4>>

\* x * y, then the product divided by the same y
C7_Witness ==
    /\ last.op = "div" /\ prev.op = "mul" /\ prev.r = last.a /\ prev.b = last.b
    /\ last.ok /\ last.r = prev.a /\ last.r = <<1, 2, 3, 4>>
    /\ last.b = <<4, 5, 6, 7>>

\* the inverse of -(1,0,0,0) = (PRIME - 1, PRIME, PRIME, PRIME), a value
\* that is not zero and has coordinates stored as PRIME
C7_WitnessStoredPrime ==
    /\ last.op = "inverse" /\ last.a = <<PRIME - 1, PRIME, PRIME, PRIME>>
    /\ last.ok /\ last.r = <<PRIME - 1, 0, 0, 0>>

\* C8: an operation mixed with a scalar s gives what the full operation gives
\* on (s,0,0,0): the same value, and for div by s # 0 the same outcome.
C8_EmbeddingConsistency ==
    /\ last.op = "add_base" => last.r = ExtensionField_add(last.a, Embed(last.b))
    /\ last.op = "sub_base" => last.r = ExtensionField_sub(last.a, Embed(last.b))
    /\ last.op = "mul_base" => last.r = ExtensionField_mul(last.a, Embed(last.b))
    /\ (last.op = "div_base" /\ last.b # 0) =>
          /\ last.ok = ExtensionField_div(last.a, Embed(last.b)).ok
          /\ last.ok => last.r = ExtensionField_div(last.a, Embed(last.b)).v

\* C9: inverse of a value whose coordinates are all congruent to 0, and div
\* by one, abort at the assertion of ExtensionField::inverse or of
\* inverse_complex; and inverse_complex aborts on the pair (0,0).
C9_ZeroElementHasNoInverse ==
    /\ (last.op = "inverse" /\ ZeroElement(last.a)) =>
          ~last.ok /\ last.at \in {"ExtensionField::inverse", "inverse_complex"}
    /\ (last.op = "div" /\ ZeroElement(last.b)) =>
          ~last.ok /\ last.at \in {"ExtensionField::inverse", "inverse_complex"}
    /\ (last.op = "inverse" /\ last.a # Zero4 /\ ExtensionField_denom(last.a) = <<0, 0>>)
          => ~last.ok /\ last.at = "inverse_complex"

\* the inverse of -(0,0,0,0), which is not the tuple (0,0,0,0): the
\* assertion of inverse_complex fails
C9_Witness ==
    /\ last.op = "inverse" /\ last.a = <<PRIME, PRIME, PRIME, PRIME>>
    /\ failed /\ ~last.ok /\ last.at = "inverse_complex"

(***************************************************************************)
(* Properties of pow and of BaseField::inverse, under SpecPow.             *)
(***************************************************************************)
\* the exponents small enough to multiply out, and their values
IsSmall(e) == \E k \in 0..MaxExp : e = ExpOf(k)
ExpValue(e) == CHOOSE k \in 0..MaxExp : e = ExpOf(k)

\* the number of bits of e up to its highest set bit
BitLength(e) ==
    IF exp_positive(e)
    THEN CHOOSE i \in 1..U128Bits : e[i] = 1 /\ \A j \in (i + 1)..U128Bits : e[j] = 0
    ELSE 0

\* self multiplied by itself n times, from (1,0,0,0)
RECURSIVE expected_pow4(_, _)
expected_pow4(bx, n) ==
    IF n = 0 THEN ExtensionField_new(Wide(1), Wide(0), Wide(0), Wide(0))
    ELSE ExtensionField_mul(expected_pow4(bx, n - 1), bx)

C5_PowIsRepeatedProduct ==
    pc \in {"loop", "done", "checked"} =>
        /\ iters + BitLength(exp) = BitLength(n0)
        /\ iters <= U128Bits
        /\ pc # "loop" => ~exp_positive(exp)
        /\ (IsSmall(n0) /\ kind = "BaseField") =>
              /\ BaseField_mul(res, expected_pow(base, ExpValue(exp)))
                    = expected_pow(arg, ExpValue(n0))
              /\ pc # "loop" => res = expected_pow(arg, ExpValue(n0))
              /\ (pc # "loop" /\ ExpValue(n0) = 0) => res = 1
        /\ (IsSmall(n0) /\ kind = "ExtensionField") =>
              /\ ExtensionField_mul(res, expected_pow4(base, ExpValue(exp)))
                    = expected_pow4(arg, ExpValue(n0))
              /\ pc # "loop" => res = expected_pow4(arg, ExpValue(n0))
              /\ (pc # "loop" /\ ExpValue(n0) = 0) => res = One4

\* (1,2,3,4).pow(6) returned after three iterations, and a call with the
\* exponent 2^128 - 1 returned after 128
C5_Witness ==
    /\ pc = "done" /\ kind = "ExtensionField" /\ arg = <<1, 2, 3, 4>>
    /\ n0 = ExpOf(6) /\ iters = 3
    /\ res = expected_pow4(arg, 6) /\ res # One4

C5_WitnessLongest ==
    /\ pc = "done" /\ n0 = ExpMax /\ iters = U128Bits

====
